---- MODULE Spec2Model ----
(***************************************************************************)
(* State-machine model of one render of streamlit_static.py: the script    *)
(* loads a YAML config, lists the aggregated result CSVs, loads and tags   *)
(* them one by one, concatenates them, summarises them per Symbol, shows   *)
(* the time series of a selected Symbol, offers the CSV download and       *)
(* finally builds the index of the stored plot images.                     *)
(*                                                                         *)
(* Python strings that the script takes apart (object keys, dates) are     *)
(* sequences of one-character strings, so that split, replace and          *)
(* endswith are computed character by character.                           *)
(***************************************************************************)
EXTENDS Integers, Sequences, FiniteSets, TLC

VARIABLES pc, failure, shown, bound, result_keys, i, response, fetched,
          daily_results, result_df, summary_df, selected_symbol, symbol_df,
          plot_keys, plot_df, stock_options, date_options, selected_key

vars == <<pc, failure, shown, bound, result_keys, i, response, fetched,
          daily_results, result_df, summary_df, selected_symbol, symbol_df,
          plot_keys, plot_df, stock_options, date_options, selected_key>>

(***************************************************************************)
(* Bounds of the model.                                                    *)
(***************************************************************************)
\* largest number of objects under the results prefix
MaxKeys == 2
\* largest number of data rows in the result files of one load together
MaxRows == 3
\* largest number of objects under the plot prefix
MaxPlotKeys == 2

(***************************************************************************)
(* Characters and strings.                                                 *)
(***************************************************************************)
Chars == <<".", "/", "0", "1", "2", "3", "4", "5", "6", "7", "8", "9",
           "A", "B", "E", "L", "P", "_",
           "a", "c", "d", "e", "g", "l", "n", "o", "p", "r", "s", "t",
           "u", "v", "x">>

\* Chars lists the characters in code-point order; Python compares strings
\* by code point, so the position in Chars orders them the same way.
CharCode(c) == CHOOSE n \in 1..Len(Chars) : Chars[n] = c

Digits == {"0", "1", "2", "3", "4", "5", "6", "7", "8", "9"}

DigitVal(c) == CharCode(c) - CharCode("0")

AR_ == <<"a","g","g","r","e","g","a","t","e","d","_","r","e","s","u","l","t","s","_">>
AR == <<"a","g","g","r","e","g","a","t","e","d","_","r","e","s","u","l","t","s">>
CSV == <<".","c","s","v">>
PNG == <<".","p","n","g">>

\* str < str
RECURSIVE StrLess(_, _)
StrLess(a, b) ==
    IF b = <<>> THEN FALSE
    ELSE IF a = <<>> THEN TRUE
    ELSE IF Head(a) = Head(b) THEN StrLess(Tail(a), Tail(b))
    ELSE CharCode(Head(a)) < CharCode(Head(b))

\* s.startswith(p)
StartsWith(s, p) == Len(s) >= Len(p) /\ SubSeq(s, 1, Len(p)) = p

\* s.endswith(p)
EndsWith(s, p) ==
    Len(s) >= Len(p) /\ SubSeq(s, Len(s) - Len(p) + 1, Len(s)) = p

\* p in s
Contains(s, p) ==
    \E k \in 1..(Len(s) - Len(p) + 1) : SubSeq(s, k, k + Len(p) - 1) = p

\* s.split(sep), sep one character
RECURSIVE SplitAcc(_, _, _)
SplitAcc(s, sep, cur) ==
    IF s = <<>> THEN <<cur>>
    ELSE IF Head(s) = sep THEN <<cur>> \o SplitAcc(Tail(s), sep, <<>>)
    ELSE SplitAcc(Tail(s), sep, Append(cur, Head(s)))

Split(s, sep) == SplitAcc(s, sep, <<>>)

\* s.split('/')[-1]
LastSegment(s) == LET parts == Split(s, "/") IN parts[Len(parts)]

\* s.replace(old, ''): every non-overlapping occurrence, left to right
RECURSIVE ReplaceAll(_, _)
ReplaceAll(s, old) ==
    IF Len(s) < Len(old) THEN s
    ELSE IF StartsWith(s, old)
         THEN ReplaceAll(SubSeq(s, Len(old) + 1, Len(s)), old)
         ELSE <<Head(s)>> \o ReplaceAll(Tail(s), old)

\* sorted(keys)
RECURSIVE InsertKey(_, _)
InsertKey(sorted, k) ==
    IF sorted = <<>> THEN <<k>>
    ELSE IF StrLess(k, Head(sorted)) THEN <<k>> \o sorted
    ELSE <<Head(sorted)>> \o InsertKey(Tail(sorted), k)

RECURSIVE SortedKeys(_)
SortedKeys(keys) ==
    IF keys = <<>> THEN <<>>
    ELSE InsertKey(SortedKeys(SubSeq(keys, 1, Len(keys) - 1)), keys[Len(keys)])

\* item['Key'].endswith('.csv') and 'aggregated_results' in item['Key']
IsCombinedCsv(key) == EndsWith(key, CSV) /\ Contains(key, AR)

\* item['Key'].endswith('.png')
IsPng(key) == EndsWith(key, PNG)

\* the list comprehension of list_combined_csvs
RECURSIVE FilterCsv(_)
FilterCsv(seq) ==
    IF seq = <<>> THEN <<>>
    ELSE (IF IsCombinedCsv(Head(seq)) THEN <<Head(seq)>> ELSE <<>>)
         \o FilterCsv(Tail(seq))

\* the list comprehension of list_plot_keys
RECURSIVE FilterPng(_)
FilterPng(seq) ==
    IF seq = <<>> THEN <<>>
    ELSE (IF IsPng(Head(seq)) THEN <<Head(seq)>> ELSE <<>>)
         \o FilterPng(Tail(seq))

\* all orders in which a listing can return the objects of a set
Orders(S) ==
    {f \in [1..Cardinality(S) -> S] : \A x \in S : \E k \in DOMAIN f : f[k] = x}

(***************************************************************************)
(* The objects of the bucket.                                              *)
(***************************************************************************)
\* r/aggregated_results_20250101.csv
K1 == <<"r","/","a","g","g","r","e","g","a","t","e","d","_","r","e","s","u","l","t","s","_","2","0","2","5","0","1","0","1",".","c","s","v">>
\* r/aggregated_results_2025.csv.csv
K4 == <<"r","/","a","g","g","r","e","g","a","t","e","d","_","r","e","s","u","l","t","s","_","2","0","2","5",".","c","s","v",".","c","s","v">>
\* aggregated_results/20250105.csv
K5 == <<"a","g","g","r","e","g","a","t","e","d","_","r","e","s","u","l","t","s","/","2","0","2","5","0","1","0","5",".","c","s","v">>
\* r/notes.csv
K6 == <<"r","/","n","o","t","e","s",".","c","s","v">>
\* r/aggregated_results_20250101.txt
K7 == <<"r","/","a","g","g","r","e","g","a","t","e","d","_","r","e","s","u","l","t","s","_","2","0","2","5","0","1","0","1",".","t","x","t">>

\* the keys an object under combine_results_prefix can have
CsvKeyUniverse == {K1, K4, K5, K6, K7}

\* g/BEL_20250407_plot.png
P1 == <<"g","/","B","E","L","_","2","0","2","5","0","4","0","7","_","p","l","o","t",".","p","n","g">>
\* g/BEL_20250408_plot.png
P2 == <<"g","/","B","E","L","_","2","0","2","5","0","4","0","8","_","p","l","o","t",".","p","n","g">>
\* g/AAPL_20250407_plot.png
P3 == <<"g","/","A","A","P","L","_","2","0","2","5","0","4","0","7","_","p","l","o","t",".","p","n","g">>
\* g/plot.png
P4 == <<"g","/","p","l","o","t",".","p","n","g">>
\* g/BEL_20250407.png
P5 == <<"g","/","B","E","L","_","2","0","2","5","0","4","0","7",".","p","n","g">>
\* g/BEL_20250409_plot.txt
P6 == <<"g","/","B","E","L","_","2","0","2","5","0","4","0","9","_","p","l","o","t",".","t","x","t">>

\* the keys an object under plot_prefix can have
PngKeyUniverse == {P1, P2, P3, P4, P5, P6}

\* the contents of the results prefix: at most MaxKeys objects
CsvBuckets == {B \in SUBSET CsvKeyUniverse : Cardinality(B) <= MaxKeys}

\* the contents of the plot prefix: at most MaxPlotKeys objects
PngBuckets == {B \in SUBSET PngKeyUniverse : Cardinality(B) <= MaxPlotKeys}

\* the data lines a result file can hold (Symbol, Net_PnL, Max_PnL,
\* Drawdown); an empty Symbol field is a line such as ",7,1,-4"
RawRows ==
    { [Symbol |-> "AAPL", Net_PnL |-> 10, Max_PnL |-> 15, Drawdown |-> -2],
      [Symbol |-> "AAPL", Net_PnL |-> 5,  Max_PnL |-> 8,  Drawdown |-> -1],
      [Symbol |-> "BEL",  Net_PnL |-> -3, Max_PnL |-> 20, Drawdown |-> -5],
      [Symbol |-> "",     Net_PnL |-> 7,  Max_PnL |-> 1,  Drawdown |-> -4] }

\* the bytes of an object: a header and data lines, or bytes that are no
\* CSV at all
WellFormedBytes ==
    { [ok |-> TRUE, rows |-> t] :
        t \in UNION {[1..n -> RawRows] : n \in 0..MaxRows} }

MalformedBytes == [ok |-> FALSE, rows |-> <<>>]

ObjectBytes == WellFormedBytes \cup {MalformedBytes}

(***************************************************************************)
(* pandas operations of the load loop.                                     *)
(***************************************************************************)
\* the missing value pandas puts where a field is empty
NaN == "<NaN>"

\* the value of a name no statement has bound, and of a selectbox without
\* options
None == "<None>"

\* pd.read_csv on well-formed bytes: an empty Symbol field becomes NaN
ReadCsv(bytes) ==
    [n \in 1..Len(bytes.rows) |->
        [bytes.rows[n] EXCEPT
            !.Symbol = IF bytes.rows[n].Symbol = "" THEN NaN
                       ELSE bytes.rows[n].Symbol]]

\* an extraction that forgets to remove '.csv'
FileDateKeepsCsv(key) == ReplaceAll(LastSegment(key), AR_)

\* key.split('/')[-1].replace('aggregated_results_', '').replace('.csv', '')
FileDate(key) == ReplaceAll(ReplaceAll(LastSegment(key), AR_), CSV)

\* df['Date'] = file_date
TagDate(df, file_date) ==
    [n \in 1..Len(df) |->
        [Symbol |-> df[n].Symbol, Net_PnL |-> df[n].Net_PnL,
         Max_PnL |-> df[n].Max_PnL, Drawdown |-> df[n].Drawdown,
         Date |-> file_date]]

\* a concatenation that puts each later frame in front
RECURSIVE ConcatReversed(_)
ConcatReversed(frames) ==
    IF frames = <<>> THEN <<>>
    ELSE ConcatReversed(Tail(frames)) \o Head(frames)

\* pd.concat(frames, ignore_index=True) of a non-empty list
RECURSIVE Concat(_)
Concat(frames) ==
    IF frames = <<>> THEN <<>> ELSE Head(frames) \o Concat(Tail(frames))

(***************************************************************************)
(* The summary: result_df.groupby('Symbol').agg(...).reset_index().        *)
(***************************************************************************)
\* the Symbols of the result files, in ascending string order
SymbolOrder == <<"AAPL", "BEL">>

\* group keys that stop at the first Symbol found
FirstGroupKey(df) ==
    LET keys == SelectSeq(SymbolOrder,
                          LAMBDA s : \E n \in 1..Len(df) : df[n].Symbol = s)
    IN IF keys = <<>> THEN <<>> ELSE <<keys[1]>>

\* the group keys: groupby sorts them and, with dropna at its default,
\* leaves out a NaN key
GroupKeys(df) ==
    SelectSeq(SymbolOrder, LAMBDA s : \E n \in 1..Len(df) : df[n].Symbol = s)

\* the rows of one group, in the order of the frame
GroupRows(df, s) == SelectSeq(df, LAMBDA r : r.Symbol = s)

\* 'sum' over the Net_PnL of a group
RECURSIVE SumNetPnL(_)
SumNetPnL(rows) ==
    IF rows = <<>> THEN 0 ELSE Head(rows).Net_PnL + SumNetPnL(Tail(rows))

\* 'max' over the Max_PnL of a non-empty group
RECURSIVE MaxMaxPnL(_)
MaxMaxPnL(rows) ==
    IF Len(rows) = 1 THEN rows[1].Max_PnL
    ELSE LET m == MaxMaxPnL(Tail(rows))
         IN IF Head(rows).Max_PnL > m THEN Head(rows).Max_PnL ELSE m

\* 'min' over the Drawdown of a non-empty group
RECURSIVE MinDrawdown(_)
MinDrawdown(rows) ==
    IF Len(rows) = 1 THEN rows[1].Drawdown
    ELSE LET m == MinDrawdown(Tail(rows))
         IN IF Head(rows).Drawdown < m THEN Head(rows).Drawdown ELSE m

\* 'max' over the Drawdown of a non-empty group
RECURSIVE MaxDrawdown(_)
MaxDrawdown(rows) ==
    IF Len(rows) = 1 THEN rows[1].Drawdown
    ELSE LET m == MaxDrawdown(Tail(rows))
         IN IF Head(rows).Drawdown > m THEN Head(rows).Drawdown ELSE m

\* the summary table, one row per group key
Summarize(df) ==
    LET keys == GroupKeys(df)
    IN [k \in 1..Len(keys) |->
          [Symbol       |-> keys[k],
           TotalNetPnL  |-> SumNetPnL(GroupRows(df, keys[k])),
           MaxNetPnL    |-> MaxMaxPnL(GroupRows(df, keys[k])),
           MaxDrawdown  |-> MaxDrawdown(GroupRows(df, keys[k]))]]

\* summary_df['Symbol'].unique().tolist()
SymbolOptions(summary) == [k \in 1..Len(summary) |-> summary[k].Symbol]

(***************************************************************************)
(* The time series of the selected Symbol.                                 *)
(***************************************************************************)
\* result_df[result_df['Symbol'] == selected_symbol].copy(); a comparison
\* with NaN or with None is false for every row
FilterSymbol(df, sel) ==
    SelectSeq(df, LAMBDA r : r.Symbol = sel /\ r.Symbol # NaN /\ sel # None)

DaysInMonth(y, m) ==
    IF m \in {4, 6, 9, 11} THEN 30
    ELSE IF m # 2 THEN 31
    ELSE IF (y % 4 = 0 /\ y % 100 # 0) \/ y % 400 = 0 THEN 29
    ELSE 28

\* whether format '%Y%m%d' parses the string: four digits of year, two of
\* month, two of day, naming a day of the calendar
IsDate(d) ==
    /\ Len(d) = 8
    /\ \A k \in 1..8 : d[k] \in Digits
    /\ LET y == 1000 * DigitVal(d[1]) + 100 * DigitVal(d[2])
                + 10 * DigitVal(d[3]) + DigitVal(d[4])
           m == 10 * DigitVal(d[5]) + DigitVal(d[6])
           dd == 10 * DigitVal(d[7]) + DigitVal(d[8])
       IN y >= 1 /\ m \in 1..12 /\ dd >= 1 /\ dd <= DaysInMonth(y, m)

\* the calendar date <<year, month, day>> of a string that parses
ToDate(d) ==
    << 1000 * DigitVal(d[1]) + 100 * DigitVal(d[2])
         + 10 * DigitVal(d[3]) + DigitVal(d[4]),
       10 * DigitVal(d[5]) + DigitVal(d[6]),
       10 * DigitVal(d[7]) + DigitVal(d[8]) >>

\* date < date
DateLess(a, b) ==
    \/ a[1] < b[1]
    \/ a[1] = b[1] /\ a[2] < b[2]
    \/ a[1] = b[1] /\ a[2] = b[2] /\ a[3] < b[3]

\* pd.to_datetime(symbol_df['Date'], format='%Y%m%d').dt.date, when every
\* Date parses
ParseDates(df) == [n \in 1..Len(df) |-> [df[n] EXCEPT !.Date = ToDate(@)]]

RECURSIVE InsertByDate(_, _)
InsertByDate(sorted, r) ==
    IF sorted = <<>> THEN <<r>>
    ELSE IF DateLess(r.Date, Head(sorted).Date) THEN <<r>> \o sorted
    ELSE <<Head(sorted)>> \o InsertByDate(Tail(sorted), r)

\* a frame left in the order it has
SortValuesNoSort(df) == df

\* symbol_df.sort_values('Date'); numpy sorts arrays this short by
\* insertion, which keeps rows of equal Date in their order
RECURSIVE SortValues(_)
SortValues(df) ==
    IF df = <<>> THEN <<>>
    ELSE InsertByDate(SortValues(SubSeq(df, 1, Len(df) - 1)), df[Len(df)])

(***************************************************************************)
(* The index of the stored plots.                                          *)
(***************************************************************************)
\* the loop over plot_keys: one entry per key whose basename has at least
\* three '_'-separated parts
RECURSIVE PlotData(_)
PlotData(keys) ==
    IF keys = <<>> THEN <<>>
    ELSE LET parts == Split(LastSegment(Head(keys)), "_")
         IN (IF Len(parts) >= 3
             THEN << [key |-> Head(keys), symbol |-> parts[1],
                      date |-> parts[2]] >>
             ELSE <<>>)
            \o PlotData(Tail(keys))

\* the distinct values of a column, as a set
ColumnValues(df, col) == {df[n][col] : n \in 1..Len(df)}

\* sorted(plot_df[col].unique())
SortedUnique(df, col) ==
    LET S == ColumnValues(df, col)
    IN SortedKeys(CHOOSE f \in Orders(S) : TRUE)

\* plot_df[(plot_df['symbol'] == stock) & (plot_df['date'] == date)]
FilterPlot(df, stock, date) ==
    SelectSeq(df, LAMBDA r : r.symbol = stock /\ r.date = date)

(***************************************************************************)
(* The run of the script.                                                  *)
(***************************************************************************)
Init ==
    /\ pc = "config"
    /\ failure = None
    /\ shown = {"title"}
    /\ bound = {}
    /\ result_keys = <<>>
    /\ i = 0
    /\ response = <<>>
    /\ fetched = <<>>
    /\ daily_results = <<>>
    /\ result_df = <<>>
    /\ summary_df = <<>>
    /\ selected_symbol = None
    /\ symbol_df = <<>>
    /\ plot_keys = <<>>
    /\ plot_df = <<>>
    /\ stock_options = <<>>
    /\ date_options = <<>>
    /\ selected_key = <<>>

\* an exception no statement catches ends the run where it is raised
Raise(exc) ==
    /\ pc' = "failed"
    /\ failure' = exc

\* yaml_config = read_yaml_from_s3(yaml_config_key)
LoadConfig ==
    /\ pc = "config"
    /\ pc' = "list"
    /\ bound' = bound \cup {"yaml_config"}
    /\ UNCHANGED <<failure, shown, result_keys, i, response, fetched,
                   daily_results, result_df, summary_df, selected_symbol,
                   symbol_df, plot_keys, plot_df, stock_options,
                   date_options, selected_key>>

\* the object store refuses the request for the config
LoadConfigFails ==
    /\ pc = "config"
    /\ Raise("ClientError")
    /\ UNCHANGED <<shown, bound, result_keys, i, response, fetched,
                   daily_results, result_df, summary_df, selected_symbol,
                   symbol_df, plot_keys, plot_df, stock_options,
                   date_options, selected_key>>

\* result_keys = list_combined_csvs(): the pages return the objects of the
\* prefix in some order; the matching keys are collected and sorted
ListCombinedCsvs(Buckets) ==
    /\ pc = "list"
    /\ \E B \in Buckets : \E listing \in Orders(B) :
          result_keys' = SortedKeys(FilterCsv(listing))
    /\ pc' = "check"
    /\ bound' = bound \cup {"result_keys"}
    /\ UNCHANGED <<failure, shown, i, response, fetched, daily_results,
                   result_df, summary_df, selected_symbol, symbol_df,
                   plot_keys, plot_df, stock_options, date_options,
                   selected_key>>

\* the object store refuses the listing
ListCombinedCsvsFails ==
    /\ pc = "list"
    /\ Raise("ClientError")
    /\ UNCHANGED <<shown, bound, result_keys, i, response, fetched,
                   daily_results, result_df, summary_df, selected_symbol,
                   symbol_df, plot_keys, plot_df, stock_options,
                   date_options, selected_key>>

\* a condition that never holds
NeverEmpty == FALSE

\* the condition of line 78
NoResultKeys == result_keys = <<>>

\* if not result_keys: st.error(...); st.stop()
NoData ==
    /\ pc = "check"
    /\ NoResultKeys
    /\ pc' = "no_data"
    /\ shown' = shown \cup {"error_no_data"}
    /\ UNCHANGED <<failure, bound, result_keys, i, response, fetched,
                   daily_results, result_df, summary_df, selected_symbol,
                   symbol_df, plot_keys, plot_df, stock_options,
                   date_options, selected_key>>

\* daily_results = []; progress_bar = st.progress(...); the loop is entered
EnterLoop ==
    /\ pc = "check"
    /\ ~NoResultKeys
    /\ pc' = "loop"
    /\ i' = 1
    /\ daily_results' = <<>>
    /\ bound' = bound \cup {"daily_results"}
    /\ shown' = shown \cup {"progress"}
    /\ UNCHANGED <<failure, result_keys, response, fetched, result_df,
                   summary_df, selected_symbol, symbol_df, plot_keys,
                   plot_df, stock_options, date_options, selected_key>>

\* the number of rows the loop has loaded
RECURSIVE RowsLoaded(_)
RowsLoaded(frames) ==
    IF frames = <<>> THEN 0 ELSE Len(Head(frames)) + RowsLoaded(Tail(frames))

\* a loop that turns to the same key again
SameIndex(n) == n

\* the key the loop turns to after key number n
NextIndex(n) == n + 1

\* client.get_object(Bucket=bucket_name, Key=key) of read_csv_from_s3, for
\* the key the loop stands at
FetchObject(Bytes) ==
    /\ pc = "loop"
    /\ i <= Len(result_keys)
    /\ \E bytes \in Bytes :
          /\ RowsLoaded(daily_results) + Len(bytes.rows) <= MaxRows
          /\ response' = <<bytes>>
          /\ fetched' = Append(fetched, [key |-> result_keys[i],
                                         body |-> <<bytes>>])
    /\ pc' = "parse"
    /\ UNCHANGED <<failure, shown, bound, result_keys, i, daily_results,
                   result_df, summary_df, selected_symbol, symbol_df,
                   plot_keys, plot_df, stock_options, date_options,
                   selected_key>>

\* the object store refuses the request for a result file
FetchObjectFails ==
    /\ pc = "loop"
    /\ i <= Len(result_keys)
    /\ fetched' = Append(fetched, [key |-> result_keys[i], body |-> <<>>])
    /\ Raise("ClientError")
    /\ UNCHANGED <<shown, bound, result_keys, i, response, daily_results,
                   result_df, summary_df, selected_symbol, symbol_df,
                   plot_keys, plot_df, stock_options, date_options,
                   selected_key>>

\* pd.read_csv(...) succeeds; df['Date'] = file_date;
\* daily_results.append(df); the progress bar advances
ParseTagAppend ==
    /\ pc = "parse"
    /\ response[1].ok
    /\ daily_results' =
          Append(daily_results,
                 TagDate(ReadCsv(response[1]), FileDate(result_keys[i])))
    /\ response' = <<>>
    /\ i' = NextIndex(i)
    /\ pc' = "loop"
    /\ UNCHANGED <<failure, shown, bound, result_keys, fetched, result_df,
                   summary_df, selected_symbol, symbol_df, plot_keys,
                   plot_df, stock_options, date_options, selected_key>>

\* a loop that skips a file it cannot parse and goes on
ParseSkips ==
    /\ pc = "parse"
    /\ ~response[1].ok
    /\ response' = <<>>
    /\ i' = i + 1
    /\ pc' = "loop"
    /\ UNCHANGED <<failure, shown, bound, result_keys, fetched,
                   daily_results, result_df, summary_df, selected_symbol,
                   symbol_df, plot_keys, plot_df, stock_options,
                   date_options, selected_key>>

\* pd.read_csv(...) raises on bytes that are no CSV
ParseFails ==
    /\ pc = "parse"
    /\ ~response[1].ok
    /\ response' = <<>>
    /\ Raise("ParseError")
    /\ UNCHANGED <<shown, bound, result_keys, i, fetched, daily_results,
                   result_df, summary_df, selected_symbol, symbol_df,
                   plot_keys, plot_df, stock_options, date_options,
                   selected_key>>

\* result_df = pd.concat(daily_results, ignore_index=True) and
\* st.dataframe(result_df); pd.concat raises ValueError on an empty list
ConcatResults ==
    /\ pc = "loop"
    /\ i > Len(result_keys)
    /\ IF daily_results = <<>>
       THEN /\ Raise("ValueError: No objects to concatenate")
            /\ UNCHANGED <<result_df, bound, shown>>
       ELSE /\ result_df' = Concat(daily_results)
            /\ bound' = bound \cup {"result_df"}
            /\ shown' = shown \cup {"results"}
            /\ pc' = "summary"
            /\ UNCHANGED failure
    /\ UNCHANGED <<result_keys, i, response, fetched, daily_results,
                   summary_df, selected_symbol, symbol_df, plot_keys,
                   plot_df, stock_options, date_options, selected_key>>

\* summary_df = result_df.groupby('Symbol').agg(...)...; st.dataframe
Summary ==
    /\ pc = "summary"
    /\ summary_df' = Summarize(result_df)
    /\ bound' = bound \cup {"summary_df"}
    /\ shown' = shown \cup {"summary"}
    /\ pc' = "select"
    /\ UNCHANGED <<failure, result_keys, i, response, fetched,
                   daily_results, result_df, selected_symbol, symbol_df,
                   plot_keys, plot_df, stock_options, date_options,
                   selected_key>>

\* selected_symbol = st.selectbox("Select Symbol", symbol_options): one of
\* the options, None when there is none
SelectSymbol ==
    /\ pc = "select"
    /\ LET options == SymbolOptions(summary_df)
       IN IF options = <<>> THEN selected_symbol' = None
          ELSE \E k \in 1..Len(options) : selected_symbol' = options[k]
    /\ bound' = bound \cup {"selected_symbol"}
    /\ pc' = "series"
    /\ UNCHANGED <<failure, shown, result_keys, i, response, fetched,
                   daily_results, result_df, summary_df, symbol_df,
                   plot_keys, plot_df, stock_options, date_options,
                   selected_key>>

\* lines 121-135: the rows of the Symbol, their dates parsed, sorted by
\* date, and the chart
TimeSeries ==
    /\ pc = "series"
    /\ LET rows == FilterSymbol(result_df, selected_symbol)
       IN /\ \A n \in 1..Len(rows) : IsDate(rows[n].Date)
          /\ symbol_df' = SortValues(ParseDates(rows))
    /\ bound' = bound \cup {"symbol_df"}
    /\ shown' = shown \cup {"chart"}
    /\ pc' = "download"
    /\ UNCHANGED <<failure, result_keys, i, response, fetched,
                   daily_results, result_df, summary_df, selected_symbol,
                   plot_keys, plot_df, stock_options, date_options,
                   selected_key>>

\* pd.to_datetime raises ValueError on a Date that does not match the
\* format; symbol_df is then the unparsed copy of line 121
TimeSeriesFails ==
    /\ pc = "series"
    /\ LET rows == FilterSymbol(result_df, selected_symbol)
       IN /\ \E n \in 1..Len(rows) : ~IsDate(rows[n].Date)
          /\ symbol_df' = rows
    /\ bound' = bound \cup {"symbol_df"}
    /\ Raise("ValueError: time data does not match format")
    /\ UNCHANGED <<shown, result_keys, i, response, fetched, daily_results,
                   result_df, summary_df, selected_symbol, plot_keys,
                   plot_df, stock_options, date_options, selected_key>>

\* csv_bytes = result_df.to_csv(index=False).encode('utf-8') and the
\* download button
Download ==
    /\ pc = "download"
    /\ bound' = bound \cup {"csv_bytes"}
    /\ shown' = shown \cup {"download"}
    /\ pc' = "plots"
    /\ UNCHANGED <<failure, result_keys, i, response, fetched,
                   daily_results, result_df, summary_df, selected_symbol,
                   symbol_df, plot_keys, plot_df, stock_options,
                   date_options, selected_key>>

\* plot_keys = list_plot_keys()
ListPlotKeys(Buckets) ==
    /\ pc = "plots"
    /\ \E B \in Buckets : \E listing \in Orders(B) :
          plot_keys' = SortedKeys(FilterPng(listing))
    /\ bound' = bound \cup {"plot_keys"}
    /\ shown' = shown \cup {"plots_header"}
    /\ pc' = "plotindex"
    /\ UNCHANGED <<failure, result_keys, i, response, fetched,
                   daily_results, result_df, summary_df, selected_symbol,
                   symbol_df, plot_df, stock_options, date_options,
                   selected_key>>

\* the object store refuses the listing of the plots
ListPlotKeysFails ==
    /\ pc = "plots"
    /\ shown' = shown \cup {"plots_header"}
    /\ Raise("ClientError")
    /\ UNCHANGED <<bound, result_keys, i, response, fetched, daily_results,
                   result_df, summary_df, selected_symbol, symbol_df,
                   plot_keys, plot_df, stock_options, date_options,
                   selected_key>>

\* if not plot_keys: st.write("No plot images found in S3 bucket.")
NoPlots ==
    /\ pc = "plotindex"
    /\ plot_keys = <<>>
    /\ shown' = shown \cup {"no_plots"}
    /\ pc' = "done"
    /\ UNCHANGED <<failure, bound, result_keys, i, response, fetched,
                   daily_results, result_df, summary_df, selected_symbol,
                   symbol_df, plot_keys, plot_df, stock_options,
                   date_options, selected_key>>

\* lines 151-163 when some key has three parts: plot_df and the two menus
BuildPlotIndex ==
    /\ pc = "plotindex"
    /\ plot_keys # <<>>
    /\ PlotData(plot_keys) # <<>>
    /\ plot_df' = PlotData(plot_keys)
    /\ stock_options' = SortedUnique(PlotData(plot_keys), "symbol")
    /\ date_options' = SortedUnique(PlotData(plot_keys), "date")
    /\ bound' = bound \cup {"plot_df", "stock_options", "date_options"}
    /\ pc' = "plotselect"
    /\ UNCHANGED <<failure, shown, result_keys, i, response, fetched,
                   daily_results, result_df, summary_df, selected_symbol,
                   symbol_df, plot_keys, selected_key>>

\* lines 151-162 when no key has three parts: pd.DataFrame([]) has no
\* column, and plot_df['symbol'] raises KeyError
BuildPlotIndexFails ==
    /\ pc = "plotindex"
    /\ plot_keys # <<>>
    /\ PlotData(plot_keys) = <<>>
    /\ plot_df' = <<>>
    /\ bound' = bound \cup {"plot_df"}
    /\ Raise("KeyError")
    /\ UNCHANGED <<shown, result_keys, i, response, fetched, daily_results,
                   result_df, summary_df, selected_symbol, symbol_df,
                   plot_keys, stock_options, date_options, selected_key>>

\* lines 164-175: the two selectboxes pick a plot that exists; its image
\* is fetched and shown
ShowPlot ==
    /\ pc = "plotselect"
    /\ \E s \in 1..Len(stock_options) : \E d \in 1..Len(date_options) :
          LET filtered == FilterPlot(plot_df, stock_options[s],
                                     date_options[d])
          IN /\ filtered # <<>>
             /\ selected_key' = filtered[1].key
    /\ bound' = bound \cup {"selected_key"}
    /\ \/ /\ shown' = shown \cup {"image"}
          /\ pc' = "done"
          /\ UNCHANGED failure
       \/ /\ Raise("ClientError")
          /\ UNCHANGED shown
    /\ UNCHANGED <<result_keys, i, response, fetched, daily_results,
                   result_df, summary_df, selected_symbol, symbol_df,
                   plot_keys, plot_df, stock_options, date_options>>

\* lines 164-177: the two selectboxes pick a stock and a date no plot has
PlotNotFound ==
    /\ pc = "plotselect"
    /\ \E s \in 1..Len(stock_options) : \E d \in 1..Len(date_options) :
          FilterPlot(plot_df, stock_options[s], date_options[d]) = <<>>
    /\ shown' = shown \cup {"no_plot_found"}
    /\ pc' = "done"
    /\ UNCHANGED <<failure, bound, result_keys, i, response, fetched,
                   daily_results, result_df, summary_df, selected_symbol,
                   symbol_df, plot_keys, plot_df, stock_options,
                   date_options, selected_key>>

(***************************************************************************)
(* Specifications.  Spec runs the script against every content of the      *)
(* results prefix and a few contents of the plot prefix; SpecPlots runs it *)
(* against a few result files and every content of the plot prefix.        *)
(***************************************************************************)
\* plot prefixes: empty, one key with a single part, two plots of
\* different stocks and dates
FewPngBuckets == {{}, {P4}, {P2, P3}}

\* results prefixes: empty, one file with a date, one without
FewCsvBuckets == {{}, {K1}, {K4}}

\* bytes of a result file: no CSV, a header alone, one data line
FewObjectBytes ==
    {b \in ObjectBytes :
        Len(b.rows) = 0 \/ (Len(b.rows) = 1 /\ b.rows[1].Net_PnL = 10)}

Next ==
    \/ LoadConfig
    \/ LoadConfigFails
    \/ ListCombinedCsvs(CsvBuckets)
    \/ ListCombinedCsvsFails
    \/ NoData
    \/ EnterLoop
    \/ FetchObject(ObjectBytes)
    \/ FetchObjectFails
    \/ ParseTagAppend
    \/ ParseFails
    \/ ConcatResults
    \/ Summary
    \/ SelectSymbol
    \/ TimeSeries
    \/ TimeSeriesFails
    \/ Download
    \/ ListPlotKeys(FewPngBuckets)
    \/ ListPlotKeysFails
    \/ NoPlots
    \/ BuildPlotIndex
    \/ BuildPlotIndexFails
    \/ ShowPlot
    \/ PlotNotFound

Spec == Init /\ [][Next]_vars

NextPlots ==
    \/ LoadConfig
    \/ LoadConfigFails
    \/ ListCombinedCsvs(FewCsvBuckets)
    \/ ListCombinedCsvsFails
    \/ NoData
    \/ EnterLoop
    \/ FetchObject(FewObjectBytes)
    \/ FetchObjectFails
    \/ ParseTagAppend
    \/ ParseFails
    \/ ConcatResults
    \/ Summary
    \/ SelectSymbol
    \/ TimeSeries
    \/ TimeSeriesFails
    \/ Download
    \/ ListPlotKeys(PngBuckets)
    \/ ListPlotKeysFails
    \/ NoPlots
    \/ BuildPlotIndex
    \/ BuildPlotIndexFails
    \/ ShowPlot
    \/ PlotNotFound

SpecPlots == Init /\ [][NextPlots]_vars

(***************************************************************************)
(* Properties.                                                             *)
(***************************************************************************)
\* the data lines of the k-th fetched result file, none when the fetch or
\* the parse failed
FetchedRows(k) ==
    IF fetched[k].body = <<>> THEN <<>> ELSE fetched[k].body[1].rows

\* the number of data lines of the first k fetched files
RECURSIVE RowsBefore(_)
RowsBefore(k) == IF k = 0 THEN 0 ELSE RowsBefore(k - 1) + Len(FetchedRows(k))

\* the Symbols of the unified dataset, the missing value left aside
SymbolsOf(df) == {df[n].Symbol : n \in 1..Len(df)} \ {NaN}

\* the positions of the rows of a Symbol
RowsOf(df, s) == {n \in 1..Len(df) : df[n].Symbol = s}

\* Net_PnL of the rows of Symbol s among the first n rows, added up
RECURSIVE NetPnLUpTo(_, _, _)
NetPnLUpTo(df, s, n) ==
    IF n = 0 THEN 0
    ELSE NetPnLUpTo(df, s, n - 1)
         + (IF df[n].Symbol = s THEN df[n].Net_PnL ELSE 0)

\* m is the largest value of a column over the rows at the positions P
IsMaxOf(df, P, col, m) ==
    /\ \E n \in P : df[n][col] = m
    /\ \A n \in P : df[n][col] <= m

\* C1: for every Symbol s of the unified dataset the summary row of s has
\* Total Net PnL = the sum of Net_PnL over all rows of s (duplicate
\* (Symbol, Date) rows counted each), Max Net PnL = the maximum of Max_PnL
\* and Max Drawdown = the maximum of Drawdown over those rows.
C1_SummaryAggregates ==
    "summary_df" \in bound =>
        \A s \in SymbolsOf(result_df) :
            \E k \in 1..Len(summary_df) :
                /\ summary_df[k].Symbol = s
                /\ summary_df[k].TotalNetPnL
                     = NetPnLUpTo(result_df, s, Len(result_df))
                /\ IsMaxOf(result_df, RowsOf(result_df, s), "Max_PnL",
                           summary_df[k].MaxNetPnL)
                /\ IsMaxOf(result_df, RowsOf(result_df, s), "Drawdown",
                           summary_df[k].MaxDrawdown)

\* C1 witness: a summary of a dataset in which one Symbol has two rows of
\* the same Date and a row of another Date
C1_Witness ==
    /\ "summary_df" \in bound
    /\ \E a, b, c \in 1..Len(result_df) :
          /\ a < b
          /\ result_df[a].Symbol = "AAPL" /\ result_df[b].Symbol = "AAPL"
          /\ result_df[c].Symbol = "AAPL"
          /\ result_df[a].Date = result_df[b].Date
          /\ result_df[c].Date # result_df[a].Date
          /\ result_df[a].Drawdown # result_df[c].Drawdown

\* C2 as stated: the summary has exactly one row for every Symbol value a
\* row of the unified dataset carries, the missing value included, and no
\* other row.
C2_OneRowPerSymbolValue ==
    "summary_df" \in bound =>
        /\ \A n \in 1..Len(result_df) :
              Cardinality({k \in 1..Len(summary_df) :
                              summary_df[k].Symbol = result_df[n].Symbol}) = 1
        /\ \A k \in 1..Len(summary_df) :
              \E n \in 1..Len(result_df) :
                  result_df[n].Symbol = summary_df[k].Symbol

\* C2 amended: the summary has exactly one row for every Symbol that is not
\* missing and no other row; rows whose Symbol is missing have no summary
\* row.
C2_OneRowPerPresentSymbol ==
    "summary_df" \in bound =>
        /\ \A s \in SymbolsOf(result_df) :
              Cardinality({k \in 1..Len(summary_df) :
                              summary_df[k].Symbol = s}) = 1
        /\ \A k \in 1..Len(summary_df) :
              summary_df[k].Symbol \in SymbolsOf(result_df)

\* C2 witness: a summary of a dataset with two Symbols and a row whose
\* Symbol is missing
C2_Witness ==
    /\ "summary_df" \in bound
    /\ SymbolsOf(result_df) = {"AAPL", "BEL"}
    /\ \E n \in 1..Len(result_df) : result_df[n].Symbol = NaN

\* a data line and a row of the unified dataset hold the same values
SameValues(raw, row) ==
    /\ row.Symbol = (IF raw.Symbol = "" THEN NaN ELSE raw.Symbol)
    /\ row.Net_PnL = raw.Net_PnL
    /\ row.Max_PnL = raw.Max_PnL
    /\ row.Drawdown = raw.Drawdown

\* C3: the unified dataset has as many rows as the files of the listed
\* keys together; the keys are in ascending order, and the rows are those
\* of the files key after key, each file's rows in the order of the file.
C3_ConcatKeepsRowsInOrder ==
    "result_df" \in bound =>
        /\ Len(fetched) = Len(result_keys)
        /\ \A k \in 1..Len(fetched) : fetched[k].key = result_keys[k]
        /\ \A k \in 1..(Len(result_keys) - 1) :
              StrLess(result_keys[k], result_keys[k + 1])
        /\ Len(result_df) = RowsBefore(Len(fetched))
        /\ \A k \in 1..Len(fetched) : \A j \in 1..Len(FetchedRows(k)) :
              SameValues(FetchedRows(k)[j], result_df[RowsBefore(k - 1) + j])

\* C3 witness: a dataset of a file of two different rows and a file of
\* another row
C3_Witness ==
    /\ "result_df" \in bound
    /\ Len(fetched) = 2
    /\ Len(FetchedRows(1)) = 2 /\ FetchedRows(1)[1] # FetchedRows(1)[2]
    /\ Len(FetchedRows(2)) = 1 /\ FetchedRows(2)[1] # FetchedRows(1)[1]

\* s without the prefix p, when it starts with p
StripPrefix(s, p) ==
    IF StartsWith(s, p) THEN SubSeq(s, Len(p) + 1, Len(s)) ELSE s

\* s without the suffix p, when it ends with p
StripSuffix(s, p) ==
    IF EndsWith(s, p) THEN SubSeq(s, 1, Len(s) - Len(p)) ELSE s

\* the extraction as stated: the last segment without the prefix
\* 'aggregated_results_' and without the suffix '.csv'
StatedDate(key) == StripSuffix(StripPrefix(LastSegment(key), AR_), CSV)

\* the number of places at which p occurs in s
Occurrences(s, p) ==
    Cardinality({k \in 1..(Len(s) - Len(p) + 1) :
                    SubSeq(s, k, k + Len(p) - 1) = p})

\* the file name is aggregated_results_<DATE>.csv and holds the two
\* literals nowhere else
PlainName(key) ==
    LET name == LastSegment(key)
    IN /\ StartsWith(name, AR_) /\ Occurrences(name, AR_) = 1
       /\ EndsWith(name, CSV) /\ Occurrences(name, CSV) = 1

\* the Date the script gives to the rows of each key of the bucket
DateOfKey(key) ==
    IF key = K1 THEN <<"2","0","2","5","0","1","0","1">>
    ELSE IF key = K4 THEN <<"2","0","2","5">>
    ELSE <<"2","0","2","5","0","1","0","5">>

\* the Dates of the rows of the unified dataset that come from the k-th
\* fetched file
DatesFrom(k) ==
    {result_df[RowsBefore(k - 1) + j].Date : j \in 1..Len(FetchedRows(k))}

\* C4 as stated: the Date of every row is the last segment of its key
\* with the prefix 'aggregated_results_' and the suffix '.csv' removed and
\* nothing else removed.
C4_DateIsStrippedName ==
    "result_df" \in bound =>
        \A k \in 1..Len(fetched) :
            DatesFrom(k) \subseteq {StatedDate(fetched[k].key)}

\* C4 amended: the Date of every row is the last segment of its key with
\* every occurrence of 'aggregated_results_' removed and then every
\* occurrence of '.csv' removed; for a file name that holds the two
\* literals as prefix and suffix only, that is the name without them.
C4_DateIsNameWithoutLiterals ==
    "result_df" \in bound =>
        \A k \in 1..Len(fetched) :
            /\ IsCombinedCsv(fetched[k].key)
            /\ DatesFrom(k) \subseteq {DateOfKey(fetched[k].key)}
            /\ DatesFrom(k) = {} \/ ~PlainName(fetched[k].key)
                 \/ DatesFrom(k) = {StatedDate(fetched[k].key)}

\* C4 witness: a dataset with a row from a key that holds '.csv' twice and
\* a row from a key of the plain form
C4_Witness ==
    /\ "result_df" \in bound
    /\ \E k, m \in 1..Len(fetched) :
          /\ fetched[k].key = K4 /\ DatesFrom(k) # {}
          /\ PlainName(fetched[m].key) /\ DatesFrom(m) # {}

\* names and elements that only the steps after the check of line 78
\* bind and render
LoadNames == {"daily_results", "result_df", "summary_df", "selected_symbol",
              "symbol_df", "csv_bytes", "plot_keys", "plot_df"}

LoadElements == {"progress", "results", "summary", "chart", "download",
                 "plots_header", "no_plots", "image", "no_plot_found"}

\* C5: with an empty listing the run reports "no data" and stops: nothing
\* is fetched, no later step is reached, no dataset is built, and the run
\* ends in the no-data state without a failure.
C5_EmptyListingStops ==
    ("result_keys" \in bound /\ result_keys = <<>> /\ pc # "check") =>
        /\ pc = "no_data"
        /\ failure = None
        /\ "error_no_data" \in shown
        /\ fetched = <<>>
        /\ bound \cap LoadNames = {}
        /\ shown \cap LoadElements = {}

\* C5 witness: the run has stopped on an empty listing
C5_Witness == pc = "no_data" /\ result_keys = <<>>

\* the run has ended on a Date that does not parse
DateParseFailed ==
    pc = "failed" /\ failure = "ValueError: time data does not match format"

\* C6 as stated: a Date of the selected Symbol that is no YYYYMMDD date
\* aborts the time-series view only; the CSV download and the plot browser
\* after it are still reached.
C6_BadDateAbortsOnlyTheView ==
    DateParseFailed => {"download", "plots_header"} \subseteq shown

\* a fetched result file was no CSV
SomeFileMalformed ==
    \E k \in 1..Len(fetched) :
        fetched[k].body # <<>> /\ ~fetched[k].body[1].ok

\* C7: when the bytes of a listed result file do not parse, the run ends
\* with that failure: no unified dataset, summary or time series is made
\* of the files parsed before, and no later key is fetched.
C7_ParseFailureAbortsLoad ==
    (SomeFileMalformed /\ pc # "parse") =>
        /\ pc = "failed"
        /\ failure = "ParseError"
        /\ bound \cap {"result_df", "summary_df", "selected_symbol",
                       "symbol_df", "csv_bytes"} = {}
        /\ shown \cap {"results", "summary", "chart", "download"} = {}
        /\ ~fetched[Len(fetched)].body[1].ok
        /\ \A k \in 1..(Len(fetched) - 1) : fetched[k].body[1].ok

\* C7 witness: the second file fails to parse after a first file with rows
\* was parsed
C7_Witness ==
    /\ pc = "failed" /\ failure = "ParseError"
    /\ Len(fetched) = 2
    /\ Len(daily_results) = 1 /\ daily_results[1] # <<>>

\* a row of the unified dataset with its Date parsed
WithDate(row) == [row EXCEPT !.Date = ToDate(@)]

\* C8: the time series of the selected Symbol holds exactly the rows of the
\* unified dataset with that Symbol, duplicates kept, in ascending order of
\* their calendar date; making it leaves the unified dataset as it was.
C8_TimeSeriesIsSortedSelection ==
    /\ [] ("chart" \in shown =>
            LET P == RowsOf(result_df, selected_symbol)
                wanted == {WithDate(result_df[n]) : n \in P}
                got == {symbol_df[n] : n \in 1..Len(symbol_df)}
            IN /\ Len(symbol_df) = Cardinality(P)
               /\ got = wanted
               /\ \A r \in wanted :
                     Cardinality({n \in 1..Len(symbol_df) : symbol_df[n] = r})
                       = Cardinality({n \in P : WithDate(result_df[n]) = r})
               /\ \A n \in 1..(Len(symbol_df) - 1) :
                     ~DateLess(symbol_df[n + 1].Date, symbol_df[n].Date))
    /\ [][pc = "series" => result_df' = result_df]_vars

\* C8 witness: a time series of three rows, two of one Date, taken from a
\* dataset that holds a later Date before an earlier one
C8_Witness ==
    /\ "chart" \in shown
    /\ Len(symbol_df) = 3
    /\ \E a, b \in RowsOf(result_df, selected_symbol) :
          a < b /\ DateLess(ToDate(result_df[b].Date), ToDate(result_df[a].Date))
    /\ \E n \in 1..2 : symbol_df[n].Date = symbol_df[n + 1].Date

\* the keys whose file name has at least three '_'-separated parts
KeptKeys(keys) ==
    SelectSeq(keys, LAMBDA key : Len(Split(LastSegment(key), "_")) >= 3)

\* C9 as stated: of a non-empty list of image keys those with fewer than
\* three parts are dropped without an error, also when all are dropped; the
\* index holds the other keys in input order and the menus are their
\* distinct symbols and dates.
C9_ShortNamesDroppedSilently ==
    ("plot_keys" \in bound /\ plot_keys # <<>> /\ pc # "plotindex") =>
        /\ failure # "KeyError"
        /\ "plot_df" \in bound
        /\ [n \in 1..Len(plot_df) |-> plot_df[n].key] = KeptKeys(plot_keys)
        /\ {stock_options[n] : n \in 1..Len(stock_options)}
             = {Split(LastSegment(KeptKeys(plot_keys)[n]), "_")[1] :
                  n \in 1..Len(KeptKeys(plot_keys))}
        /\ {date_options[n] : n \in 1..Len(date_options)}
             = {Split(LastSegment(KeptKeys(plot_keys)[n]), "_")[2] :
                  n \in 1..Len(KeptKeys(plot_keys))}

\* C10: the listed keys are fetched one at a time in ascending key order,
\* each once; a key is fetched only after the table of the key before it
\* was appended, and the tables are concatenated only after the last key's
\* table was appended.
C10_SequentialLoad ==
    /\ Len(fetched) <= Len(result_keys)
    /\ \A k \in 1..Len(fetched) : fetched[k].key = result_keys[k]
    /\ \A k \in 1..(Len(result_keys) - 1) :
          StrLess(result_keys[k], result_keys[k + 1])
    /\ Len(daily_results) <= Len(fetched)
    /\ Len(fetched) <= Len(daily_results) + 1
    /\ pc = "loop" => Len(fetched) = Len(daily_results)
    /\ pc = "parse" => Len(fetched) = Len(daily_results) + 1
    /\ "result_df" \in bound =>
          /\ Len(daily_results) = Len(result_keys)
          /\ Len(fetched) = Len(result_keys)

\* C10 witness: two keys were loaded and their tables concatenated
C10_Witness == "result_df" \in bound /\ Len(result_keys) = 2

====
